---- MODULE Spec2Model ----
(***************************************************************************)
(* Model of the BOOM Payment Gateway Python examples:                      *)
(*   examples/python/payment_client.py  (class PaymentGatewayClient, main) *)
(*   examples/python/simple_payment.py  (test_connection,                  *)
(*                                       process_payment_simple, main)     *)
(*                                                                         *)
(* A Python str is a TLA+ string; a URL is the sequence of the pieces the  *)
(* f-strings concatenate; an Optional[str] is <<>> (None) or <<s>>.        *)
(* A blocking HTTP call is split at the point where the client waits for   *)
(* the server: one action issues the request, one consumes the outcome.    *)
(***************************************************************************)
EXTENDS Integers, Sequences, FiniteSets, TLC

VARIABLES
    ctor_base_url, \* the base_url argument the constructor was given
    base_url,      \* self.base_url
    api_key,       \* self.api_key (Optional[str])
    api_version,   \* self.api_version
    headers,       \* self.session.headers
    jsonlib,       \* which decoder error response.json() raises in this install
    pc,            \* "idle" | "waiting" (a request is in flight)
    op,            \* the client method being / last executed
    args,          \* its arguments
    old_headers,   \* get_transaction's local old_headers
    pre_headers,   \* session headers at the moment the method was entered
    request,       \* the HTTP request last handed to the session
    reqCount,      \* HTTP requests issued by the current / last method call
    response,      \* what the session call of the current / last method call produced
    result,        \* what the method gave back: returned value or raised exception
    script,        \* which example script runs ("none" when the client is driven directly)
    spc,           \* position of the script
    sent,          \* requests the script has sent, in order
    received,      \* what came back for each of them, in order
    printed        \* indicators the script has printed, in order

vars == <<ctor_base_url, base_url, api_key, api_version, headers, jsonlib, pc, op, args,
          old_headers, pre_headers, request, reqCount, response, result,
          script, spc, sent, received, printed>>

configVars == <<ctor_base_url, base_url, api_key, api_version, jsonlib>>

scriptVars == <<script, spc, sent, received, printed>>

----------------------------------------------------------------------------
(* Bounds of the model *)

\* longest run of trailing '/' on a base URL handed to the constructor
MaxSlashes == 1
\* number of distinct caller-chosen metadata keys besides the injected ones
MaxExtraKeys == 1

----------------------------------------------------------------------------
(* Python values *)

None == <<>>
Some(s) == <<s>>

\* Python truthiness of an Optional[str]: None and "" are falsy
Truthy(o) == o # None /\ o[1] # ""

\* dict.update / {**a, **b}: entries of b win
Update(a, b) ==
    [k \in (DOMAIN a) \cup (DOMAIN b) |-> IF k \in DOMAIN b THEN b[k] ELSE a[k]]

RECURSIVE Slashes(_)
Slashes(n) == IF n = 0 THEN <<>> ELSE <<"/">> \o Slashes(n - 1)

\* str.rstrip('/') on a URL given as pieces: drop every trailing "/" piece
RECURSIVE rstrip(_)
rstrip(s) ==
    IF s # <<>> /\ s[Len(s)] = "/" THEN rstrip(SubSeq(s, 1, Len(s) - 1)) ELSE s

----------------------------------------------------------------------------
(* Inputs *)

Host == "http://localhost:3000"
BaseUrls == { <<Host>> \o Slashes(n) : n \in 0..MaxSlashes }
ApiKeys == { None, Some(""), Some("abc") }
ApiVersions == { "v1", "v2" }

\* datetime.now().isoformat() and str(uuid.uuid4()) are environment values
Clock == { "2024-01-01T00:00:00" }
Uuids == { "uuid-a", "uuid-b" }

ExtraKeyNames == <<"orderRef", "source", "campaign", "channel">>
ExtraKeys == { ExtraKeyNames[i] : i \in 1..MaxExtraKeys }
\* keys a caller may put in metadata: one that process_payment also writes, and its own
MetaKeys == { "clientLibrary" } \cup ExtraKeys
MetaVals == { "python", "caller" }
Metadatas == UNION { [D -> MetaVals] : D \in SUBSET MetaKeys }
\* payment_data: metadata key absent (None) or a mapping
PaymentDatas == { [amount |-> 2999, currency |-> "USD", metadata |-> m] :
                    m \in {None} \cup { Some(f) : f \in Metadatas } }

TransactionIds == { "tx-1", "tx-2" }
AuthTokens == { "tok-1", "tok-2" }
OrderIds == { None, Some(""), Some("ORDER-123") }
Amounts == { 2999, 1 }
Currencies == { "USD", "EUR" }

(* What the server / network can do with one request *)
\* 3xx: a redirect status requests does not follow (304, or no Location header)
Statuses == { 200, 201, 304, 404, 500 }
\* body: is it JSON, its "success" member, and whether it has the "data" member
Bodies == { [json |-> FALSE, success |-> "absent", data |-> FALSE],
            [json |-> TRUE, success |-> "absent", data |-> FALSE],
            [json |-> TRUE, success |-> "true", data |-> TRUE],
            [json |-> TRUE, success |-> "true", data |-> FALSE],
            [json |-> TRUE, success |-> "false", data |-> FALSE] }
Outcomes == { [net |-> "conn_error"], [net |-> "timeout"] }
            \cup { [net |-> "ok", status |-> s, body |-> b] : s \in Statuses, b \in Bodies }

\* decoder error raised by response.json(): requests >= 2.27 raises
\* requests.exceptions.JSONDecodeError (a RequestException and a
\* json.JSONDecodeError); older versions raise json.JSONDecodeError, or
\* simplejson's (a plain ValueError) when simplejson is installed
JsonLibs == { "requests", "json", "simplejson" }

----------------------------------------------------------------------------
(* Exceptions and results *)

\* classes derived from requests.exceptions.RequestException
RequestExceptions == { "ConnectionError", "Timeout", "HTTPError", "requests.JSONDecodeError" }
\* classes derived from json.JSONDecodeError
JSONDecodeErrors == { "requests.JSONDecodeError", "json.JSONDecodeError" }

\* an exception as the caller sees it: its class, the fixed part of its
\* message, and the class of the exception whose text the message embeds
Exc(cls, msg, cause) == [cls |-> cls, msg |-> msg, cause |-> cause]

Returned(v, parsed) == [kind |-> "returned", value |-> v, parsed |-> parsed]
Raised(e, parsed) == [kind |-> "raised", exc |-> e, parsed |-> parsed]
NoResult == [kind |-> "none"]

\* requests: the transport fails, or response.raise_for_status() raises for 4xx/5xx
SessionError(o) ==
    IF o.net = "conn_error" THEN "ConnectionError"
    ELSE IF o.net = "timeout" THEN "Timeout"
    ELSE IF o.status >= 400 /\ o.status < 600 THEN "HTTPError"
    ELSE "none"

\* response.json() on the body
JsonError(o, lib) ==
    IF o.body.json THEN "none"
    ELSE IF lib = "requests" THEN "requests.JSONDecodeError"
    ELSE IF lib = "json" THEN "json.JSONDecodeError"
    ELSE "simplejson.JSONDecodeError"

\* variant: decode the body first, look at the status afterwards
TryBody_JsonFirst(o, lib) ==
    IF o.net = "conn_error" THEN [err |-> "ConnectionError", parsed |-> FALSE]
    ELSE IF o.net = "timeout" THEN [err |-> "Timeout", parsed |-> FALSE]
    ELSE IF JsonError(o, lib) # "none" THEN [err |-> JsonError(o, lib), parsed |-> TRUE]
    ELSE [err |-> SessionError(o), parsed |-> TRUE]

\* the try body shared by _make_request and health_check:
\*   response = session.request(...); response.raise_for_status(); return response.json()
\* gives the class of the first exception raised ("none": the body is returned)
\* and whether response.json() was reached
TryBody(o, lib) ==
    IF SessionError(o) # "none"
    THEN [err |-> SessionError(o), parsed |-> FALSE]
    ELSE [err |-> JsonError(o, lib), parsed |-> TRUE]

\* variant: a decoded body with success: false is raised as an error
make_request_RaiseOnFalse(o, lib) ==
    LET t == TryBody(o, lib) IN
    IF t.err = "none"
    THEN IF o.body.success = "false"
         THEN Raised(Exc("Exception", "API request failed", "none"), t.parsed)
         ELSE Returned(o.body, t.parsed)
    ELSE IF t.err \in RequestExceptions
         THEN Raised(Exc("Exception", "API request failed", t.err), t.parsed)
    ELSE IF t.err \in JSONDecodeErrors
         THEN Raised(Exc("Exception", "Invalid response format", "none"), t.parsed)
    ELSE Raised(Exc(t.err, "", "none"), t.parsed)

\* variant: a requests exception is passed on as it is, not wrapped
make_request_Reraise(o, lib) ==
    LET t == TryBody(o, lib) IN
    IF t.err = "none" THEN Returned(o.body, t.parsed)
    ELSE IF t.err \in RequestExceptions
         THEN Raised(Exc(t.err, "", "none"), t.parsed)
    ELSE IF t.err \in JSONDecodeErrors
         THEN Raised(Exc("Exception", "Invalid response format", "none"), t.parsed)
    ELSE Raised(Exc(t.err, "", "none"), t.parsed)

\* _make_request: the two except clauses, in order
make_request(o, lib) ==
    LET t == TryBody(o, lib) IN
    IF t.err = "none" THEN Returned(o.body, t.parsed)
    ELSE IF t.err \in RequestExceptions
         THEN Raised(Exc("Exception", "API request failed", t.err), t.parsed)
    ELSE IF t.err \in JSONDecodeErrors
         THEN Raised(Exc("Exception", "Invalid response format", "none"), t.parsed)
    ELSE Raised(Exc(t.err, "", "none"), t.parsed)

\* variant: every failure is wrapped the way _make_request wraps it
health_check_Wrapped(o, lib) ==
    LET t == TryBody(o, lib) IN
    IF t.err = "none" THEN Returned(o.body, t.parsed)
    ELSE Raised(Exc("Exception", "Health check failed", t.err), t.parsed)

\* health_check: logs and re-raises whatever was raised
health_check(o, lib) ==
    LET t == TryBody(o, lib) IN
    IF t.err = "none" THEN Returned(o.body, t.parsed)
    ELSE Raised(Exc(t.err, "", "none"), t.parsed)

----------------------------------------------------------------------------
(* PaymentGatewayClient *)

SessionDefaults == [h \in {"User-Agent", "Accept"} |->
                      IF h = "User-Agent" THEN "python-requests" ELSE "*/*"]

ClientHeaders == [h \in {"Content-Type", "User-Agent"} |->
                    IF h = "Content-Type" THEN "application/json"
                    ELSE "BOOM-Payment-Gateway-Python-Client/1.0"]

\* __init__: the session's default headers
InitHeaders(key) ==
    LET h == Update(SessionDefaults, ClientHeaders) IN
    IF Truthy(key) THEN Update(h, [k \in {"X-API-Key"} |-> key[1]]) ELSE h

\* _get_endpoint
get_endpoint(path) == base_url \o <<"/api/", api_version>> \o path

\* session.request(method, url, json=data, timeout=...): session headers go out
Request(method, url, data, timeout) ==
    [method |-> method, url |-> url, headers |-> headers, json |-> data, timeout |-> timeout]

NoRequest == [method |-> "none"]

\* variant: "is not None" instead of truthiness
PaymentEndpoint_NotNone(key) ==
    IF key # None THEN <<"/payments/process-secure">> ELSE <<"/payments/process">>

\* process_payment: endpoint choice
PaymentEndpoint(key) ==
    IF Truthy(key) THEN <<"/payments/process-secure">> ELSE <<"/payments/process">>

\* variant: the metadata mapping is replaced instead of extended
AddMetadata_Replace(payment_data, now) ==
    [payment_data EXCEPT !.metadata =
        Some([k \in {"clientLibrary", "timestamp"} |->
                IF k = "clientLibrary" THEN "python" ELSE now])]

\* process_payment: metadata injection
AddMetadata(payment_data, now) ==
    LET m == IF payment_data.metadata = None THEN <<>> ELSE payment_data.metadata[1]
        injected == [k \in {"clientLibrary", "timestamp"} |->
                        IF k = "clientLibrary" THEN "python" ELSE now]
    IN [payment_data EXCEPT !.metadata = Some(Update(m, injected))]

\* variant: the bearer header replaces the session headers
BearerHeaders_Replace(h, auth_token) ==
    [k \in {"Authorization"} |-> <<"Bearer ", auth_token>>]

\* get_transaction: headers while the call is in flight
BearerHeaders(h, auth_token) ==
    Update(h, [k \in {"Authorization"} |-> <<"Bearer ", auth_token>>])

\* variant: restore after the return only, not when _make_request raises
RestoredHeaders_SuccessOnly(old, current, res) ==
    IF res.kind = "raised" THEN current ELSE old

\* get_transaction: finally clause
RestoredHeaders(old, current, res) == old

NoResponse == [net |-> "none"]

\* a caller constructs PaymentGatewayClient(base_url, api_key, api_version)
DirectInit ==
    /\ ctor_base_url \in BaseUrls
    /\ base_url = rstrip(ctor_base_url)
    /\ api_key \in ApiKeys
    /\ api_version \in ApiVersions
    /\ headers = InitHeaders(api_key)
    /\ jsonlib \in JsonLibs
    /\ pc = "idle"
    /\ op = "none"
    /\ args = <<>>
    /\ old_headers = <<>>
    /\ pre_headers = headers
    /\ request = NoRequest
    /\ reqCount = 0
    /\ response = NoResponse
    /\ result = NoResult
    /\ script = "none"
    /\ spc = "none"
    /\ sent = <<>>
    /\ received = <<>>
    /\ printed = <<>>

\* entering a client method
Enter(name, a) ==
    /\ pc = "idle"
    /\ op' = name
    /\ args' = a
    /\ pre_headers' = headers
    /\ response' = NoResponse
    /\ UNCHANGED configVars

HealthCheckSend ==
    /\ Enter("health_check", <<>>)
    /\ request' = Request("GET", base_url \o <<"/health">>, None, 10)
    /\ reqCount' = 1
    /\ result' = NoResult
    /\ pc' = "waiting"
    /\ UNCHANGED <<headers, old_headers>>

ProcessPaymentSend(payment_data) ==
    \E now \in Clock :
        /\ Enter("process_payment", <<payment_data>>)
        /\ request' = Request("POST", get_endpoint(PaymentEndpoint(api_key)),
                              Some(AddMetadata(payment_data, now)), 30)
        /\ reqCount' = 1
        /\ result' = NoResult
        /\ pc' = "waiting"
        /\ UNCHANGED <<headers, old_headers>>

GetTransactionSend(transaction_id, auth_token) ==
    /\ Enter("get_transaction", <<transaction_id, auth_token>>)
    /\ old_headers' = headers
    /\ headers' = BearerHeaders(headers, auth_token)
    /\ request' = [Request("GET", get_endpoint(<<"/transactions/", transaction_id>>), None, 30)
                     EXCEPT !.headers = headers']
    /\ reqCount' = 1
    /\ result' = NoResult
    /\ pc' = "waiting"

AuthenticateSend(email, password) ==
    /\ Enter("authenticate", <<email, password>>)
    /\ request' = Request("POST", get_endpoint(<<"/auth/login">>),
                          Some([email |-> email, password |-> password]), 30)
    /\ reqCount' = 1
    /\ result' = NoResult
    /\ pc' = "waiting"
    /\ UNCHANGED <<headers, old_headers>>

\* variant: a failed request is sent once more before giving up
Finish_Retry(o, res) ==
    IF res.kind = "raised" /\ reqCount < 2
    THEN /\ reqCount' = reqCount + 1
         /\ pc' = "waiting"
         /\ response' = o
         /\ result' = NoResult
         /\ UNCHANGED <<configVars, op, args, pre_headers, request>>
    ELSE /\ response' = o
         /\ result' = res
         /\ pc' = "idle"
         /\ UNCHANGED <<configVars, op, args, pre_headers, request, reqCount>>

\* the blocked session call comes back; the method returns or raises
Finish(o, res) ==
    /\ response' = o
    /\ result' = res
    /\ pc' = "idle"
    /\ UNCHANGED <<configVars, op, args, pre_headers, request, reqCount>>

HealthCheckDone(o) ==
    /\ pc = "waiting" /\ op = "health_check"
    /\ Finish(o, health_check(o, jsonlib))
    /\ UNCHANGED <<headers, old_headers>>

MakeRequestDone(o) ==
    /\ pc = "waiting" /\ op \in {"process_payment", "authenticate"}
    /\ Finish(o, make_request(o, jsonlib))
    /\ UNCHANGED <<headers, old_headers>>

GetTransactionDone(o) ==
    /\ pc = "waiting" /\ op = "get_transaction"
    /\ Finish(o, make_request(o, jsonlib))
    /\ headers' = RestoredHeaders(old_headers, headers, make_request(o, jsonlib))
    /\ UNCHANGED old_headers

\* create_payment_form_data: the dict it builds
FormData(amount, currency, order_id, fresh, now) ==
    [amount |-> amount,
     currency |-> currency,
     orderId |-> IF Truthy(order_id) THEN order_id[1] ELSE fresh,
     timestamp |-> now,
     apiUrl |-> get_endpoint(<<"/payments/process">>)]

CreatePaymentFormData(amount, currency, order_id) ==
    \E fresh \in Uuids, now \in Clock :
        /\ Enter("create_payment_form_data", <<amount, currency, order_id>>)
        /\ result' = Returned(FormData(amount, currency, order_id, fresh, now), FALSE)
        /\ reqCount' = 0
        /\ UNCHANGED <<headers, old_headers, request, pc>>

(* A caller driving the client directly, in any order *)
CallHealthCheck == script = "none" /\ HealthCheckSend /\ UNCHANGED scriptVars
CallProcessPayment ==
    /\ script = "none"
    /\ \E payment_data \in PaymentDatas : ProcessPaymentSend(payment_data)
    /\ UNCHANGED scriptVars
CallGetTransaction ==
    /\ script = "none"
    /\ \E transaction_id \in TransactionIds, auth_token \in AuthTokens :
          GetTransactionSend(transaction_id, auth_token)
    /\ UNCHANGED scriptVars
CallAuthenticate ==
    /\ script = "none"
    /\ \E email \in {"admin@example.com"}, password \in {"pw-1"} :
          AuthenticateSend(email, password)
    /\ UNCHANGED scriptVars
CallCreatePaymentFormData ==
    /\ script = "none"
    /\ \E amount \in Amounts, currency \in Currencies, order_id \in OrderIds :
          CreatePaymentFormData(amount, currency, order_id)
    /\ UNCHANGED scriptVars
ReturnHealthCheck ==
    script = "none" /\ (\E o \in Outcomes : HealthCheckDone(o)) /\ UNCHANGED scriptVars
ReturnMakeRequest ==
    script = "none" /\ (\E o \in Outcomes : MakeRequestDone(o)) /\ UNCHANGED scriptVars
ReturnGetTransaction ==
    script = "none" /\ (\E o \in Outcomes : GetTransactionDone(o)) /\ UNCHANGED scriptVars


----------------------------------------------------------------------------
(* The example scripts.  "[OK]" and "[X]" stand for the check mark and the  *)
(* cross the scripts print in front of their messages.                      *)

\* payment_client.py main(): the payment it submits (no metadata key)
MainPaymentData == [amount |-> 2999, currency |-> "USD", metadata |-> None]

\* variant: the except clause prints but does not return
MainAfterHealth_NoReturn(res) == "pay"

\* payment_client.py main(): try: health_check() / except Exception: print, return
MainAfterHealth(res) == IF res.kind = "raised" THEN "done" ELSE "pay"

MainHealthSend ==
    /\ script = "client_main" /\ spc = "start"
    /\ HealthCheckSend
    /\ sent' = Append(sent, "health")
    /\ spc' = "health"
    /\ UNCHANGED <<script, received, printed>>

MainHealthDone ==
    \E o \in Outcomes :
        /\ script = "client_main" /\ spc = "health"
        /\ HealthCheckDone(o)
        /\ received' = Append(received, o)
        /\ printed' = Append(printed, IF result'.kind = "raised"
                                      THEN "[X] Health Check Failed"
                                      ELSE "[OK] Health Check")
        /\ spc' = MainAfterHealth(result')
        /\ UNCHANGED <<script, sent>>

MainPaySend ==
    /\ script = "client_main" /\ spc = "pay"
    /\ ProcessPaymentSend(MainPaymentData)
    /\ sent' = Append(sent, "payment")
    /\ spc' = "paying"
    /\ UNCHANGED <<script, received, printed>>

MainPayDone ==
    \E o \in Outcomes :
        /\ script = "client_main" /\ spc = "paying"
        /\ MakeRequestDone(o)
        /\ received' = Append(received, o)
        /\ printed' = Append(printed, IF result'.kind = "raised"
                                      THEN "[X] Payment Failed"
                                      ELSE "[OK] Payment Result")
        /\ spc' = "done"
        /\ UNCHANGED <<script, sent>>

\* simple_payment.py test_connection(): True, False, or an exception that
\* no except clause of the script catches
test_connection(o, lib) ==
    IF o.net # "ok" THEN "False"
    ELSE IF o.status = 200
         THEN IF JsonError(o, lib) = "none" THEN "True"
              ELSE IF JsonError(o, lib) \in RequestExceptions THEN "False"
              ELSE "uncaught"
    ELSE "False"

\* simple_payment.py main(): if test_connection(): process_payment_simple() else: print
SimpleAfterHealth(t) ==
    IF t = "True" THEN "pay" ELSE IF t = "False" THEN "done" ELSE "crashed"

SimplePrintsAfterHealth(t) ==
    IF t = "True" THEN <<"[OK] Connection successful!">>
    ELSE IF t = "False" THEN <<"[X] Connection failed", "[X] Cannot connect to payment gateway.">>
    ELSE <<"Traceback">>

\* simple_payment.py process_payment_simple(): endpoint and headers
SimpleEndpoint(key) ==
    IF Truthy(key)
    THEN base_url \o <<"/api/", api_version>> \o <<"/payments/process-secure">>
    ELSE base_url \o <<"/api/", api_version>> \o <<"/payments/process">>

SimpleHeaders(key) ==
    LET h == [k \in {"Content-Type", "User-Agent"} |->
                IF k = "Content-Type" THEN "application/json"
                ELSE "Python-Payment-Client/1.0"]
    IN IF Truthy(key) THEN Update(h, [k \in {"X-API-Key"} |-> key[1]]) ELSE h

\* simple_payment.py process_payment_simple(): what it prints for an outcome
process_payment_simple(o, lib) ==
    IF o.net # "ok" THEN <<"[X] Request failed">>
    ELSE IF JsonError(o, lib) # "none"
         THEN IF JsonError(o, lib) \in RequestExceptions THEN <<"[X] Request failed">>
              ELSE IF JsonError(o, lib) \in JSONDecodeErrors THEN <<"[X] Invalid response format">>
              ELSE <<"[X] Unexpected error">>
    ELSE IF o.status = 200 /\ o.body.success = "true"
         THEN IF o.body.data THEN <<"[OK] Payment successful!">>
              ELSE <<"[OK] Payment successful!", "[X] Unexpected error">>
    ELSE <<"[X] Payment failed!">>

SimpleHealthSend ==
    /\ script = "simple_main" /\ spc = "start"
    /\ request' = [method |-> "GET", url |-> base_url \o <<"/health">>,
                   headers |-> SessionDefaults, json |-> None, timeout |-> 10]
    /\ sent' = Append(sent, "health")
    /\ spc' = "health"
    /\ UNCHANGED <<configVars, headers, pc, op, args, old_headers, pre_headers,
                   reqCount, response, result, script, received, printed>>

SimpleHealthDone ==
    \E o \in Outcomes :
        /\ script = "simple_main" /\ spc = "health"
        /\ received' = Append(received, o)
        /\ printed' = printed \o SimplePrintsAfterHealth(test_connection(o, jsonlib))
        /\ spc' = SimpleAfterHealth(test_connection(o, jsonlib))
        /\ UNCHANGED <<configVars, headers, pc, op, args, old_headers, pre_headers,
                       request, reqCount, response, result, script, sent>>

SimplePaySend ==
    /\ script = "simple_main" /\ spc = "pay"
    /\ request' = [method |-> "POST", url |-> SimpleEndpoint(api_key),
                   headers |-> Update(SessionDefaults, SimpleHeaders(api_key)),
                   json |-> Some([amount |-> 2999, currency |-> "USD", metadata |-> None]),
                   timeout |-> 30]
    /\ sent' = Append(sent, "payment")
    /\ spc' = "paying"
    /\ UNCHANGED <<configVars, headers, pc, op, args, old_headers, pre_headers,
                   reqCount, response, result, script, received, printed>>

SimplePayDone ==
    \E o \in Outcomes :
        /\ script = "simple_main" /\ spc = "paying"
        /\ received' = Append(received, o)
        /\ printed' = printed \o process_payment_simple(o, jsonlib)
        /\ spc' = "done"
        /\ UNCHANGED <<configVars, headers, pc, op, args, old_headers, pre_headers,
                       request, reqCount, response, result, script, sent>>

\* payment_client.py main() builds PaymentGatewayClient("http://localhost:3000");
\* simple_payment.py reads API_BASE_URL, API_VERSION and API_KEY
ScriptInit ==
    /\ script \in {"client_main", "simple_main"}
    /\ ctor_base_url = <<Host>>
    /\ base_url = IF script = "client_main" THEN rstrip(ctor_base_url) ELSE ctor_base_url
    /\ api_key \in (IF script = "client_main" THEN {None} ELSE {Some(""), Some("abc")})
    /\ api_version = "v1"
    /\ headers = IF script = "client_main" THEN InitHeaders(api_key) ELSE SessionDefaults
    /\ jsonlib \in JsonLibs
    /\ pc = "idle"
    /\ op = "none"
    /\ args = <<>>
    /\ old_headers = <<>>
    /\ pre_headers = headers
    /\ request = NoRequest
    /\ reqCount = 0
    /\ response = NoResponse
    /\ result = NoResult
    /\ spc = "start"
    /\ sent = <<>>
    /\ received = <<>>
    /\ printed = <<>>

\* either a caller drives a client it constructed, or one of the scripts runs
Init == DirectInit \/ ScriptInit

Next ==
    \/ CallHealthCheck
    \/ CallProcessPayment
    \/ CallGetTransaction
    \/ CallAuthenticate
    \/ CallCreatePaymentFormData
    \/ ReturnHealthCheck
    \/ ReturnMakeRequest
    \/ ReturnGetTransaction
    \/ MainHealthSend
    \/ MainHealthDone
    \/ MainPaySend
    \/ MainPayDone
    \/ SimpleHealthSend
    \/ SimpleHealthDone
    \/ SimplePaySend
    \/ SimplePayDone

Spec == Init /\ [][Next]_vars

----------------------------------------------------------------------------
(* Properties *)

ApiOps == { "process_payment", "get_transaction", "authenticate" }
NetOps == ApiOps \cup { "health_check" }

\* a client method that talks to the server has come back to its caller
CallFinished(o) == script # "simple_main" /\ op = o /\ pc = "idle" /\ result.kind # "none"

\* an API key counts as configured when it is a non-empty string
KeyConfigured == api_key # None /\ api_key # Some("")

Is2xx(st) == st >= 200 /\ st < 300
Is4xx5xx(st) == st >= 400 /\ st < 600

\* C1: when get_transaction has returned or raised, the session's default
\* headers equal the headers the session had when the method was entered.
C1_HeadersRestored ==
    CallFinished("get_transaction") => headers = pre_headers

C1_Witness ==
    /\ CallFinished("get_transaction")
    /\ result.kind = "raised"
    /\ KeyConfigured
    /\ "Authorization" \in DOMAIN request.headers
    /\ "Authorization" \notin DOMAIN headers
    /\ headers = pre_headers

\* C2: the payment request is a POST to
\* {base url}/api/{version}/payments/process-secure when an API key is
\* configured and to {base url}/api/{version}/payments/process otherwise;
\* this holds for the client's process_payment and for simple_payment.py.
PaymentRequestSent ==
    \/ script # "simple_main" /\ op = "process_payment"
    \/ script = "simple_main" /\ Len(sent) = 2

C2_EndpointIffKey ==
    PaymentRequestSent =>
        /\ request.method = "POST"
        /\ request.url = rstrip(ctor_base_url) \o <<"/api/", api_version>>
                         \o << IF KeyConfigured THEN "/payments/process-secure"
                               ELSE "/payments/process" >>

C2_Witness ==
    /\ script = "none" /\ op = "process_payment" /\ pc = "waiting"
    /\ KeyConfigured
    /\ ctor_base_url # base_url
    /\ request.url = <<Host, "/api/", api_version, "/payments/process-secure">>

\* C3: the payload process_payment sends has metadata.clientLibrary and
\* metadata.timestamp; every other key the caller put in metadata is there
\* with the caller's value; without caller metadata the mapping has exactly
\* the two injected keys.
Injected == { "clientLibrary", "timestamp" }

C3_MetadataInjected ==
    (script # "simple_main" /\ op = "process_payment") =>
        LET m == request.json[1].metadata[1]
            given == args[1].metadata
        IN /\ Injected \subseteq DOMAIN m
           /\ m["clientLibrary"] = "python"
           /\ m["timestamp"] \in Clock
           /\ given # None =>
                \A k \in (DOMAIN given[1]) \ Injected :
                    k \in DOMAIN m /\ m[k] = given[1][k]
           /\ given = None => DOMAIN m = Injected

C3_Witness ==
    /\ script = "none" /\ op = "process_payment" /\ pc = "waiting"
    /\ args[1].metadata # None
    /\ DOMAIN args[1].metadata[1] = { "clientLibrary", "orderRef" }
    /\ args[1].metadata[1]["orderRef"] = "caller"
    /\ request.json[1].metadata[1]["orderRef"] = "caller"
    /\ DOMAIN request.json[1].metadata[1] = Injected \cup { "orderRef" }

C5_SuccessFalseRaises ==
    \A o \in ApiOps :
        (CallFinished(o) /\ response.net = "ok"
            /\ response.body.json /\ response.body.success = "false") =>
            result.kind = "raised"

\* C5 amended: such a body is raised (as "API request failed") only when the
\* status is 4xx/5xx; with any other status the decoded body is returned to
\* the caller as a normal result.  payment_client.py's main then prints it as
\* the payment result; simple_payment.py prints the failure indicator.
C5_SuccessFalseReturned ==
    /\ \A o \in ApiOps :
        (CallFinished(o) /\ response.net = "ok"
            /\ response.body.json /\ response.body.success = "false") =>
            IF Is4xx5xx(response.status)
            THEN /\ result.kind = "raised"
                 /\ result.exc = Exc("Exception", "API request failed", "HTTPError")
            ELSE /\ result.kind = "returned"
                 /\ result.value = response.body
    /\ (script # "none" /\ spc = "done" /\ Len(received) = 2
            /\ received[2].net = "ok" /\ received[2].body.json
            /\ received[2].body.success = "false") =>
            IF script = "simple_main"
            THEN printed[Len(printed)] = "[X] Payment failed!"
            ELSE printed[Len(printed)] =
                    (IF Is4xx5xx(received[2].status) THEN "[X] Payment Failed"
                     ELSE "[OK] Payment Result")

C5_Witness ==
    /\ CallFinished("process_payment")
    /\ response.net = "ok" /\ response.status = 200
    /\ response.body.json /\ response.body.success = "false"
    /\ result.kind = "returned" /\ result.value.success = "false"

\* what the caller can tell an exception by: its class and its fixed message
Visible(res) == <<res.exc.cls, res.exc.msg>>

\* what a method gives back for an outcome
MethodResult(o, out) ==
    IF o = "health_check" THEN health_check(out, jsonlib) ELSE make_request(out, jsonlib)

NetFailures == { out \in Outcomes : out.net # "ok" }
\* answers that make the method raise: an error status or an undecodable body
BadAnswers(o) == { out \in Outcomes : out.net = "ok" /\ MethodResult(o, out).kind = "raised" }

\* C6 as stated: a call that fails because the server is unreachable or the
\* timeout expires raises an error the caller can tell apart from every error
\* the same method raises for a bad status or an invalid body.
C6_ConnectionKindDistinct ==
    \A o \in NetOps :
        (CallFinished(o) /\ response.net \in {"conn_error", "timeout"}) =>
            /\ result.kind = "raised"
            /\ \A out \in BadAnswers(o) : Visible(MethodResult(o, out)) # Visible(result)

\* C6 amended: on an unreachable server or a timeout, health_check re-raises
\* the requests ConnectionError / Timeout, a class it raises for no bad status
\* or body; process_payment, get_transaction and authenticate raise
\* Exception("API request failed: ...") with the same class and message prefix
\* as for a 4xx/5xx answer, only the embedded error text differing.
C6_ConnectionFailureRaised ==
    \A o \in NetOps :
        (CallFinished(o) /\ response.net \in {"conn_error", "timeout"}) =>
            /\ result.kind = "raised"
            /\ ~result.parsed
            /\ reqCount = 1
            /\ IF o = "health_check"
               THEN /\ result.exc.cls =
                          (IF response.net = "timeout" THEN "Timeout" ELSE "ConnectionError")
                    /\ \A out \in BadAnswers(o) :
                          Visible(MethodResult(o, out)) # Visible(result)
               ELSE /\ result.exc.cls = "Exception"
                    /\ result.exc.msg = "API request failed"
                    /\ result.exc.cause =
                          (IF response.net = "timeout" THEN "Timeout" ELSE "ConnectionError")
                    /\ \E out \in BadAnswers(o) :
                          /\ Is4xx5xx(out.status)
                          /\ Visible(MethodResult(o, out)) = Visible(result)
                          /\ MethodResult(o, out).exc.cause # result.exc.cause

C6_Witness ==
    /\ CallFinished("authenticate")
    /\ response.net = "timeout"
    /\ result.kind = "raised"
    /\ result.exc = Exc("Exception", "API request failed", "Timeout")

\* C7: with an API key configured every request of the client carries
\* X-API-Key with that key, and so do the session's headers between calls;
\* get_transaction's request also carries Authorization: Bearer {token};
\* without a configured key no request carries X-API-Key.
C7_ApiKeyOnEveryRequest ==
    (script # "simple_main") =>
        /\ IF KeyConfigured
           THEN /\ "X-API-Key" \in DOMAIN headers
                /\ headers["X-API-Key"] = api_key[1]
                /\ request.method # "none" =>
                      /\ "X-API-Key" \in DOMAIN request.headers
                      /\ request.headers["X-API-Key"] = api_key[1]
           ELSE /\ "X-API-Key" \notin DOMAIN headers
                /\ request.method # "none" => "X-API-Key" \notin DOMAIN request.headers
        /\ (op = "get_transaction") =>
              /\ "Authorization" \in DOMAIN request.headers
              /\ request.headers["Authorization"] = <<"Bearer ", args[2]>>

C7_Witness ==
    /\ script = "none" /\ op = "get_transaction" /\ pc = "waiting"
    /\ KeyConfigured
    /\ request.headers["X-API-Key"] = "abc"
    /\ request.headers["Authorization"] = <<"Bearer ", "tok-2">>

\* C8: create_payment_form_data sends no request and changes no client
\* state; orderId is the order_id argument whenever one is passed (any
\* string) and a fresh UUID only when it is omitted; amount and currency are
\* the arguments; apiUrl is {base url}/api/{version}/payments/process.
C8_FormDataEchoesOrderId ==
    (op = "create_payment_form_data") =>
        /\ pc = "idle" /\ reqCount = 0 /\ headers = pre_headers
        /\ result.kind = "returned"
        /\ result.value.amount = args[1]
        /\ result.value.currency = args[2]
        /\ result.value.apiUrl =
              rstrip(ctor_base_url) \o <<"/api/", api_version, "/payments/process">>
        /\ IF args[3] # None THEN result.value.orderId = args[3][1]
           ELSE result.value.orderId \in Uuids

\* C9: a call of health_check, process_payment, get_transaction or
\* authenticate issues at most one HTTP request; once the request has come
\* back, whatever the outcome, the method has returned or raised and no
\* further request is sent for that call.
C9_OneRequestPerCall ==
    [][ /\ reqCount' <= 1
        /\ (script # "simple_main" /\ pc = "waiting") =>
              /\ pc' = "idle"
              /\ op' = op
              /\ reqCount' = 1
              /\ request' = request
              /\ result'.kind \in {"returned", "raised"} ]_vars

C9_Witness ==
    /\ CallFinished("process_payment")
    /\ response.net = "ok" /\ response.status = 500
    /\ result.kind = "raised"
    /\ reqCount = 1

\* the script's health request did not succeed, as the claim puts it:
\* connection failure or a status other than 200
HealthFailedNon200(out) == out.net # "ok" \/ out.status # 200

\* the script's health request did not succeed, as each script decides it:
\* payment_client.py through raise_for_status (4xx/5xx), simple_payment.py
\* through status_code == 200
HealthFailed(sc, out) ==
    \/ out.net # "ok"
    \/ sc = "client_main" /\ Is4xx5xx(out.status)
    \/ sc = "simple_main" /\ out.status # 200

FailureIndicators == { "[X] Health Check Failed", "[X] Cannot connect to payment gateway." }

ScriptOrder(failed(_)) ==
    (script # "none") =>
        /\ Len(sent) <= 2
        /\ sent \in { <<>>, <<"health">>, <<"health", "payment">> }
        /\ Len(received) <= Len(sent)
        /\ (Len(sent) = 2) => ~failed(received[1])
        /\ (Len(received) >= 1 /\ failed(received[1])) =>
              /\ spc = "done"
              /\ sent = <<"health">>
              /\ printed # <<>>
              /\ printed[Len(printed)] \in FailureIndicators

\* C10 as stated: the payment request is sent only after a health request
\* answered with status 200; when the health request fails (connection
\* failure or a non-200 status) the script prints a failure indicator and
\* ends with no payment request sent; a run sends at most one health request
\* followed by at most one payment request.
C10_PaymentOnlyAfter200 == ScriptOrder(HealthFailedNon200)

\* C10 amended: the same, where a failed health request is a connection
\* failure, or a 4xx/5xx status in payment_client.py's main, or any status
\* other than 200 in simple_payment.py.
C10_PaymentOnlyAfterHealth == ScriptOrder(LAMBDA out : HealthFailed(script, out))

C10_Witness ==
    /\ script = "client_main" /\ spc = "done"
    /\ received = << [net |-> "ok", status |-> 500,
                      body |-> [json |-> TRUE, success |-> "absent", data |-> FALSE]] >>
    /\ sent = <<"health">>
    /\ printed = <<"[X] Health Check Failed">>

====
